---- MODULE Spec2Model ----
(***************************************************************************)
(* The backport tool of assets/backport: the cherry-pick engine of         *)
(* github.go (CherryPickCommitsOnBranch, cherryPickCommit,                 *)
(* createSiblingCommit) and the commit resolver (GetBranchCommits),        *)
(* running against a remote commit graph: an object store of immutable     *)
(* commits, named refs, and the remote calls the client issues.  Every     *)
(* remote call is one step; between two steps the remote state is what     *)
(* any other reader would see.                                             *)
(***************************************************************************)
EXTENDS Integers, Sequences, FiniteSets, TLC

VARIABLES
    store,    \* the object store: SHA -> commit [Message, Tree, Parents]
    refs,     \* the refs: branch name -> SHA (a deleted ref is not in the domain)
    nextSha,  \* the SHA the next created commit gets
    calls,    \* the remote calls issued so far, in order
    eng,      \* CherryPickCommitsOnBranch invocations: id -> locals and position
    rsv,      \* the GetBranchCommits invocation: locals and position
    tracing,  \* whether the remote calls are recorded in calls
    main,     \* main: locals and position
    pulls,    \* the pull requests created so far, in order
    parse     \* the parseBranches invocation: input and result

vars == <<store, refs, nextSha, calls, eng, rsv, tracing, main, pulls, parse>>

\* what the client of github.go never touches
outside == <<tracing, main, pulls, parse>>

----------------------------------------------------------------------------
(* Bounds *)

\* the longest commit list replayed; also the length of the source branch
MaxCommits == 3

\* commits in the graphs the resolver is run on
NumCommits == 4

\* items per page of the listCommits enumeration (github.go sets 100; the
\* model pages by a small number so that multi-page enumerations occur)
PageSize == 2

----------------------------------------------------------------------------
(* The remote commit graph *)

NoErr == ""

SetToSeq(S) == CHOOSE f \in [1..Cardinality(S) -> S] : \A i, j \in 1..Cardinality(S) : i < j => f[i] < f[j]

\* the commits reachable from sha through parent links, sha included
RECURSIVE Reach(_, _)
Reach(st, sha) ==
    {sha} \cup UNION {Reach(st, st[sha].Parents[k]) : k \in 1..Len(st[sha].Parents)}

\* what the remote's getCommit answers for a SHA it has
CommitAt(st, sha) ==
    [SHA |-> sha, Message |-> st[sha].Message, Tree |-> st[sha].Tree,
     Parents |-> st[sha].Parents]

\* the best common ancestors of two commits (git merge-base)
MergeBases(st, a, b) ==
    LET common == Reach(st, a) \cap Reach(st, b)
    IN  {c \in common : \A d \in common \ {c} : c \notin Reach(st, d)}

\* three-way merge of trees; a tree is the set of changes it holds
Merge3(base, ours, theirs) == (ours \ (base \ theirs)) \cup (theirs \ base)

SrcShas == 2..(MaxCommits + 1)
HeadSha == MaxCommits + 2

\* mainline A = 1 (tree {}); the source branch 2, 3, ... each on top of the
\* one before, commit k adding change k; the release head on top of A with a
\* change of its own
BaseStore ==
    [sha \in 1..HeadSha |->
        IF sha = 1 THEN [Message |-> "init", Tree |-> {}, Parents |-> <<>>]
        ELSE IF sha = HeadSha
             THEN [Message |-> "release", Tree |-> {0}, Parents |-> <<1>>]
             ELSE [Message |-> "m" \o ToString(sha), Tree |-> 2..sha,
                   Parents |-> <<sha - 1>>]]

branchRefPrefix == "refs/heads/"

RefName(branchName) == branchRefPrefix \o branchName

\* the new branch of a target: auto-backport/[release branch]/[original branch]
NewBranchName(targetBranch) == "auto-backport/" \o targetBranch \o "/src"

BaseRefs ==
    (RefName("master") :> 1) @@ (RefName("src") :> MaxCommits + 1)
        @@ (RefName("release") :> HeadSha)

\* one remote call as the remote sees it: the operation, the place in the
\* client that issued it, the invocation and its step (0 outside a step),
\* the ref and SHA passed, the SHA answered, and the outcome
Call(op, site, p, step, ref, sha, out, res) ==
    [op |-> op, site |-> site, p |-> p, step |-> step, ref |-> ref,
     sha |-> sha, out |-> out, res |-> res]

\* the record of calls with one more call
Logged(c) == IF tracing THEN Append(calls, c) ELSE calls

\* outcomes of the remote calls: "ok" or the failure
GetCommitResults(st, sha) ==
    IF sha \in DOMAIN st THEN {"ok", "NotFound", "Unavailable"} ELSE {"NotFound"}

CreateCommitResults == {"ok", "Unavailable"}

UpdateRefResults(rf, ref) ==
    IF ref \in DOMAIN rf THEN {"ok", "Unavailable"} ELSE {"NotFound"}

DeleteRefResults(rf, ref) ==
    IF ref \in DOMAIN rf THEN {"ok", "Unavailable"} ELSE {"NotFound"}

MergeResults(st, rf, base, head) ==
    IF RefName(base) \notin DOMAIN rf \/ head \notin DOMAIN st THEN {"NotFound"}
    ELSE IF MergeBases(st, rf[RefName(base)], head) = {} THEN {"Conflict"}
    ELSE {"ok", "Conflict", "Unavailable"}

\* the commit the remote merge creates on the base branch
MergeCommit(st, rf, base, head) ==
    LET ours == rf[RefName(base)]
        mb == CHOOSE c \in MergeBases(st, ours, head) : TRUE
    IN  [Message |-> "merge",
         Tree |-> Merge3(st[mb].Tree, st[ours].Tree, st[head].Tree),
         Parents |-> <<ours, head>>]

----------------------------------------------------------------------------
(* CherryPickCommitsOnBranch *)

NoCommit == [SHA |-> 0, Message |-> "", Tree |-> {}, Parents |-> <<>>]

\* a *go_github.Branch as CreateBranchFrom hands it over
BranchObject(name, nameNil, sha, shaNil) ==
    [Name |-> name, NameNil |-> nameNil, SHA |-> sha, SHANil |-> shaNil]

\* what an error value says besides its kind: the ref and the SHA its text
\* names ("" and 0 when it names none)
ErrInfo(ref, sha) == [ref |-> ref, sha |-> sha]
NoErrInfo == ErrInfo("", 0)

StartEng(branch, commits) ==
    [pc |-> "start", branch |-> branch, commits |-> commits, branchName |-> "",
     headCommit |-> NoCommit, i |-> 0, commitSHA |-> 0, mergeSHA |-> 0,
     mergeTree |-> {}, updatedCommit |-> NoCommit, sha |-> 0, err |-> NoErr,
     errInfo |-> NoErrInfo]

\* commits[i] and its first parent
Cherry(e) == e.commits[e.i + 1]
CherryParent(e) == Cherry(e).Parents[1]

\* the loop header: the next commit, or return nil after the last one
EnterLoop(e) ==
    IF e.i < Len(e.commits) THEN [e EXCEPT !.pc = "createSibling"]
    ELSE [e EXCEPT !.pc = "returned", !.err = NoErr]

\* the text of the error at hand: trace.NotFound names what its format names;
\* a failed remote call names what is in its request URL (the SHA of a
\* getCommit, the ref of an updateRef; createCommit and merge name neither)
ErrorOf(e) ==
    CASE e.pc = "start" ->
            IF e.branch.NameNil THEN NoErrInfo
            ELSE IF e.branch.SHANil THEN ErrInfo(e.branch.Name, 0)
            ELSE ErrInfo("", e.branch.SHA)
      [] e.pc \in {"updateSibling", "updateFinal"} -> ErrInfo(RefName(e.branchName), 0)
      [] e.pc = "mergeGetCommit" -> ErrInfo("", e.mergeSHA)
      [] e.pc = "getUpdated" -> ErrInfo("", e.headCommit.SHA)
      [] OTHER -> NoErrInfo

\* trace.Wrap(err): the error with a stack trace, its text as it was
TraceWrap(info) == info

\* (mutant) an error before the loop also schedules the branch deletion
BeginFailed_deletes(e, r) ==
    [e EXCEPT !.pc = "deleteBranch", !.err = r, !.errInfo = TraceWrap(ErrorOf(e))]

\* an error before the loop is returned as it is
BeginFailed(e, r) ==
    [e EXCEPT !.pc = "returned", !.err = r, !.errInfo = TraceWrap(ErrorOf(e))]

\* (mutant) the error is returned without the deferred deleteBranch
StepFailed_noDefer(e, r) ==
    [e EXCEPT !.pc = "returned", !.err = r, !.errInfo = TraceWrap(ErrorOf(e))]

\* an error of cherryPickCommit: defer deleteBranch, return the error
StepFailed(e, r) ==
    [e EXCEPT !.pc = "deleteBranch", !.err = r, !.errInfo = TraceWrap(ErrorOf(e))]

\* what CherryPickCommitsOnBranch hands back to its caller: an error
ReturnValue(e) == [err |-> e.err, errInfo |-> e.errInfo]

\* (mutant) the "temp" commit is put on top of the branch head
SiblingCommit_onHead(e) ==
    [Message |-> "temp", Tree |-> e.headCommit.Tree, Parents |-> <<e.headCommit.SHA>>]

\* the "temp" commit: the branch head's tree on the parent of the cherry
SiblingCommit(e) ==
    [Message |-> "temp", Tree |-> e.headCommit.Tree, Parents |-> <<CherryParent(e)>>]

\* (mutant) the final commit is put on top of the sibling
FinalCommit_onSibling(e) ==
    [Message |-> Cherry(e).Message, Tree |-> e.mergeTree, Parents |-> <<e.commitSHA>>]

\* the commit that stays: the cherry's message, the merge tree, the old head
FinalCommit(e) ==
    [Message |-> Cherry(e).Message, Tree |-> e.mergeTree,
     Parents |-> <<e.updatedCommit.SHA>>]

\* (mutant) the branch is left on the merge commit
FinalRefTarget_merge(e) == e.mergeSHA

\* the SHA the branch is repointed to at the end of a step
FinalRefTarget(e) == e.sha

\* (mutant) the tree of the head is not threaded forward
ThreadHead_staleTree(e) == [e EXCEPT !.headCommit.SHA = e.sha, !.i = e.i + 1]

\* (mutant) the new head is written into commits[i] as well
ThreadHead_intoList(e) ==
    [e EXCEPT !.headCommit.SHA = e.sha, !.headCommit.Tree = e.mergeTree,
              !.commits[e.i + 1].SHA = e.sha, !.i = e.i + 1]

\* headCommit.SHA = &sha; headCommit.Tree = tree; i++
ThreadHead(e) ==
    [e EXCEPT !.headCommit.SHA = e.sha, !.headCommit.Tree = e.mergeTree, !.i = e.i + 1]

CherryPickCommitsOnBranch(p) ==
    LET e == eng[p] IN
    /\ e.pc = "start"
    /\ IF e.branch.NameNil \/ e.branch.SHANil
       THEN /\ eng' = [eng EXCEPT ![p] = BeginFailed(e, "NotFound")]
            /\ UNCHANGED <<store, refs, nextSha, calls, rsv, outside>>
       ELSE \E r \in GetCommitResults(store, e.branch.SHA) :
            /\ calls' = Logged(Call("getCommit", "CherryPickCommitsOnBranch",
                                           p, 0, "", e.branch.SHA, 0, r))
            /\ eng' = [eng EXCEPT ![p] =
                         IF r = "ok"
                         THEN EnterLoop([e EXCEPT !.headCommit = CommitAt(store, e.branch.SHA),
                                                  !.branchName = e.branch.Name])
                         ELSE BeginFailed(e, r)]
            /\ UNCHANGED <<store, refs, nextSha, rsv, outside>>

\* createSiblingCommit: createCommit("temp", tree, cherryParent)
SiblingCreateCommit(p) ==
    LET e == eng[p] IN
    /\ e.pc = "createSibling"
    /\ \E r \in CreateCommitResults :
         IF r = "ok"
         THEN /\ store' = (nextSha :> SiblingCommit(e)) @@ store
              /\ nextSha' = nextSha + 1
              /\ calls' = Logged(Call("createCommit", "createSiblingCommit",
                                             p, e.i + 1, "", CherryParent(e), nextSha, r))
              /\ eng' = [eng EXCEPT ![p] = [e EXCEPT !.commitSHA = nextSha,
                                                     !.pc = "updateSibling"]]
              /\ UNCHANGED <<refs, rsv, outside>>
         ELSE /\ calls' = Logged(Call("createCommit", "createSiblingCommit",
                                             p, e.i + 1, "", CherryParent(e), 0, r))
              /\ eng' = [eng EXCEPT ![p] = StepFailed(e, r)]
              /\ UNCHANGED <<store, refs, nextSha, rsv, outside>>

\* createSiblingCommit: updateBranch(branchName, commitSHA)
SiblingUpdateBranch(p) ==
    LET e == eng[p] IN
    /\ e.pc = "updateSibling"
    /\ \E r \in UpdateRefResults(refs, RefName(e.branchName)) :
         /\ calls' = Logged(Call("updateRef", "createSiblingCommit", p, e.i + 1,
                                        RefName(e.branchName), e.commitSHA, 0, r))
         /\ refs' = IF r = "ok" THEN [refs EXCEPT ![RefName(e.branchName)] = e.commitSHA]
                    ELSE refs
         /\ eng' = [eng EXCEPT ![p] = IF r = "ok" THEN [e EXCEPT !.pc = "merge"]
                                      ELSE StepFailed(e, r)]
         /\ UNCHANGED <<store, nextSha, rsv, outside>>

\* merge: Repositories.Merge(base = branchName, head = cherry SHA)
MergeCall(p) ==
    LET e == eng[p] IN
    /\ e.pc = "merge"
    /\ \E r \in MergeResults(store, refs, e.branchName, Cherry(e).SHA) :
         IF r = "ok"
         THEN /\ store' = (nextSha :> MergeCommit(store, refs, e.branchName, Cherry(e).SHA))
                              @@ store
              /\ refs' = [refs EXCEPT ![RefName(e.branchName)] = nextSha]
              /\ nextSha' = nextSha + 1
              /\ calls' = Logged(Call("merge", "merge", p, e.i + 1, e.branchName,
                                             Cherry(e).SHA, nextSha, r))
              /\ eng' = [eng EXCEPT ![p] = [e EXCEPT !.mergeSHA = nextSha,
                                                     !.pc = "mergeGetCommit"]]
              /\ UNCHANGED <<rsv, outside>>
         ELSE /\ calls' = Logged(Call("merge", "merge", p, e.i + 1, e.branchName,
                                             Cherry(e).SHA, 0, r))
              /\ eng' = [eng EXCEPT ![p] = StepFailed(e, r)]
              /\ UNCHANGED <<store, refs, nextSha, rsv, outside>>

\* merge: getCommit(merge.GetSHA()), then mergeTree := merge.GetTree()
MergeGetCommit(p) ==
    LET e == eng[p] IN
    /\ e.pc = "mergeGetCommit"
    /\ \E r \in GetCommitResults(store, e.mergeSHA) :
         /\ calls' = Logged(Call("getCommit", "merge", p, e.i + 1, "",
                                        e.mergeSHA, 0, r))
         /\ eng' = [eng EXCEPT ![p] =
                      IF r = "ok"
                      THEN [e EXCEPT !.mergeTree = CommitAt(store, e.mergeSHA).Tree,
                                     !.pc = "getUpdated"]
                      ELSE StepFailed(e, r)]
         /\ UNCHANGED <<store, refs, nextSha, rsv, outside>>

\* cherryPickCommit: updatedCommit := getCommit(*headBranchCommit.SHA)
GetUpdatedCommit(p) ==
    LET e == eng[p] IN
    /\ e.pc = "getUpdated"
    /\ \E r \in GetCommitResults(store, e.headCommit.SHA) :
         /\ calls' = Logged(Call("getCommit", "cherryPickCommit", p, e.i + 1, "",
                                        e.headCommit.SHA, 0, r))
         /\ eng' = [eng EXCEPT ![p] =
                      IF r = "ok"
                      THEN [e EXCEPT !.updatedCommit = CommitAt(store, e.headCommit.SHA),
                                     !.pc = "createFinal"]
                      ELSE StepFailed(e, r)]
         /\ UNCHANGED <<store, refs, nextSha, rsv, outside>>

\* cherryPickCommit: createCommit(message, mergeTree, updatedCommit)
FinalCreateCommit(p) ==
    LET e == eng[p] IN
    /\ e.pc = "createFinal"
    /\ \E r \in CreateCommitResults :
         IF r = "ok"
         THEN /\ store' = (nextSha :> FinalCommit(e)) @@ store
              /\ nextSha' = nextSha + 1
              /\ calls' = Logged(Call("createCommit", "cherryPickCommit", p,
                                             e.i + 1, "", e.updatedCommit.SHA, nextSha, r))
              /\ eng' = [eng EXCEPT ![p] = [e EXCEPT !.sha = nextSha, !.pc = "updateFinal"]]
              /\ UNCHANGED <<refs, rsv, outside>>
         ELSE /\ calls' = Logged(Call("createCommit", "cherryPickCommit", p,
                                             e.i + 1, "", e.updatedCommit.SHA, 0, r))
              /\ eng' = [eng EXCEPT ![p] = StepFailed(e, r)]
              /\ UNCHANGED <<store, refs, nextSha, rsv, outside>>

\* cherryPickCommit: updateBranch(branchName, sha); back in the loop the
\* head is threaded forward and the next commit is taken
FinalUpdateBranch(p) ==
    LET e == eng[p] IN
    /\ e.pc = "updateFinal"
    /\ \E r \in UpdateRefResults(refs, RefName(e.branchName)) :
         /\ calls' = Logged(Call("updateRef", "cherryPickCommit", p, e.i + 1,
                                        RefName(e.branchName), FinalRefTarget(e), 0, r))
         /\ refs' = IF r = "ok"
                    THEN [refs EXCEPT ![RefName(e.branchName)] = FinalRefTarget(e)]
                    ELSE refs
         /\ eng' = [eng EXCEPT ![p] = IF r = "ok" THEN EnterLoop(ThreadHead(e))
                                      ELSE StepFailed(e, r)]
         /\ UNCHANGED <<store, nextSha, rsv, outside>>

\* the deferred deleteBranch: its error is dropped, the step's error returned
\* (mutant) the delete takes every branch that is not a base branch
WithoutRef_allNew(rf, ref) == [n \in DOMAIN rf \cap DOMAIN BaseRefs |-> rf[n]]

\* the refs after Git.DeleteRef(ref)
WithoutRef(rf, ref) == [n \in DOMAIN rf \ {ref} |-> rf[n]]

DeferredDeleteBranch(p) ==
    LET e == eng[p] IN
    /\ e.pc = "deleteBranch"
    /\ \E r \in DeleteRefResults(refs, RefName(e.branchName)) :
         /\ calls' = Logged(Call("deleteRef", "deleteBranch", p, e.i + 1,
                                        RefName(e.branchName), 0, 0, r))
         /\ refs' = IF r = "ok"
                    THEN WithoutRef(refs, RefName(e.branchName))
                    ELSE refs
         /\ eng' = [eng EXCEPT ![p] = [e EXCEPT !.pc = "returned"]]
         /\ UNCHANGED <<store, nextSha, rsv, outside>>

----------------------------------------------------------------------------
(* One replay on one new branch *)

IdleMain ==
    [pc |-> "idle", targets |-> <<>>, t |-> 0, commits |-> <<>>, baseBranchSHA |-> 0,
     err |-> NoErr, completed |-> <<>>]

IdleParse == [pc |-> "idle", input |-> <<>>, ret |-> <<>>, err |-> NoErr]

IdleResolver ==
    [pc |-> "idle", branchName |-> "", page |-> 0, repoCommits |-> <<>>,
     comparison |-> <<>>, pos |-> 0, commits |-> <<>>, err |-> NoErr,
     ret |-> <<>>, retNil |-> FALSE]

Injective(s) == \A a, b \in 1..Len(s) : a /= b => s[a] /= s[b]

\* the lists GetBranchCommits can hand over: distinct single-parent commits
\* of the source branch, as getCommit answered them
CommitLists ==
    LET shaLists == {s \in UNION {[1..n -> SrcShas] : n \in 0..MaxCommits} : Injective(s)}
    IN  {[k \in 1..Len(s) |-> CommitAt(BaseStore, s[k])] : s \in shaLists}

Branches(name) ==
    {BranchObject(name, FALSE, HeadSha, FALSE), BranchObject(name, TRUE, HeadSha, FALSE),
     BranchObject(name, FALSE, HeadSha, TRUE)}

Init ==
    /\ store = BaseStore
    /\ refs = (RefName(NewBranchName("release")) :> HeadSha) @@ BaseRefs
    /\ nextSha = HeadSha + 1
    /\ calls = <<>>
    /\ eng \in [{1} -> {StartEng(b, cs) : b \in Branches(NewBranchName("release")),
                                          cs \in CommitLists}]
    /\ rsv = IdleResolver
    /\ tracing = TRUE
    /\ main = IdleMain
    /\ pulls = <<>>
    /\ parse = IdleParse

Next ==
    \/ \E p \in DOMAIN eng : CherryPickCommitsOnBranch(p)
    \/ \E p \in DOMAIN eng : SiblingCreateCommit(p)
    \/ \E p \in DOMAIN eng : SiblingUpdateBranch(p)
    \/ \E p \in DOMAIN eng : MergeCall(p)
    \/ \E p \in DOMAIN eng : MergeGetCommit(p)
    \/ \E p \in DOMAIN eng : GetUpdatedCommit(p)
    \/ \E p \in DOMAIN eng : FinalCreateCommit(p)
    \/ \E p \in DOMAIN eng : FinalUpdateBranch(p)
    \/ \E p \in DOMAIN eng : DeferredDeleteBranch(p)

Spec == Init /\ [][Next]_vars

\* every remote call is synchronous and answers (with its result or with an
\* error, at the latest when the context's deadline passes)
SpecLive == Init /\ [][Next]_vars /\ WF_vars(Next)

----------------------------------------------------------------------------
(* What the remote saw of one replay *)

CallIdx(p) == {k \in 1..Len(calls) : calls[k].p = p}

\* the indices of the successful calls of one kind issued by one place
OkCalls(p, op, site) ==
    {k \in CallIdx(p) : calls[k].op = op /\ calls[k].site = site /\ calls[k].res = "ok"}

SiblingShas(p) == {calls[k].out : k \in OkCalls(p, "createCommit", "createSiblingCommit")}
MergeShas(p) == {calls[k].out : k \in OkCalls(p, "merge", "merge")}
FinalShas(p) == {calls[k].out : k \in OkCalls(p, "createCommit", "cherryPickCommit")}

\* the commit the createCommit of cherryPickCommit answered in step s
FinalShaOfStep(p, s) ==
    calls[CHOOSE k \in OkCalls(p, "createCommit", "cherryPickCommit") : calls[k].step = s].out

\* the tree of the commit the merge of step s answered
MergeTreeOfStep(p, s) ==
    store[calls[CHOOSE k \in OkCalls(p, "merge", "merge") : calls[k].step = s].out].Tree

BranchRef(p) == RefName(eng[p].branch.Name)

Succeeded(p) == eng[p].pc = "returned" /\ eng[p].err = NoErr

\* a call of a step failed (the deferred deleteBranch is not a step's call)
FailedAtStep(p) ==
    \E k \in CallIdx(p) : calls[k].step >= 1 /\ calls[k].op /= "deleteRef"
                          /\ calls[k].res /= "ok"

MutatingOps == {"createCommit", "merge", "updateRef", "deleteRef"}

LastCall(p) == calls[CHOOSE k \in CallIdx(p) : \A j \in CallIdx(p) : j <= k]

\* j hops along first parents from sha (0 once there is no parent)
RECURSIVE Walk(_, _, _)
Walk(st, sha, j) ==
    IF j = 0 THEN sha
    ELSE LET prev == Walk(st, sha, j - 1)
         IN  IF prev \in DOMAIN st /\ Len(st[prev].Parents) >= 1
             THEN st[prev].Parents[1] ELSE 0

----------------------------------------------------------------------------
(* Claims on the replay *)

\* C1: a replay of N commits in which no remote call fails leaves the branch
\* ref on FN with FN, ..., F1, H the chain of sole parents: N new commits, Fi
\* with one parent, the message of ci and the tree the merge of step i answered.
C1_ReplayAppendsChain ==
    \A p \in DOMAIN eng :
        Succeeded(p) =>
            LET e == eng[p]
                N == Len(e.commits)
            IN  /\ BranchRef(p) \in DOMAIN refs
                /\ \A j \in 0..(N - 1) :
                     LET f == Walk(store, refs[BranchRef(p)], j)
                     IN  /\ f \in DOMAIN store
                         /\ f \notin DOMAIN BaseStore
                         /\ Len(store[f].Parents) = 1
                         /\ store[f].Message = e.commits[N - j].Message
                         /\ store[f].Tree = MergeTreeOfStep(p, N - j)
                /\ Walk(store, refs[BranchRef(p)], N) = e.branch.SHA
                /\ Cardinality(FinalShas(p)) = N

C1_Witness ==
    \E p \in DOMAIN eng : Succeeded(p) /\ Len(eng[p].commits) = MaxCommits

\* C2: after every completed step, and so after a successful replay, no
\* sibling and no merge commit is reachable from the commit the branch ref
\* points at.
C2_NoSiblingNoMergeReachable ==
    \A p \in DOMAIN eng :
        (eng[p].pc = "createSibling" \/ Succeeded(p)) =>
            /\ BranchRef(p) \in DOMAIN refs
            /\ Reach(store, refs[BranchRef(p)]) \cap (SiblingShas(p) \cup MergeShas(p)) = {}

C2_Witness ==
    \E p \in DOMAIN eng :
        /\ eng[p].pc = "createSibling" /\ eng[p].i = 2
        /\ Cardinality(SiblingShas(p)) = 2 /\ Cardinality(MergeShas(p)) = 2

\* C3: when step k fails with Conflict from the merge, k-1 replayed commits
\* were created, none for steps k..N, no call of a later step was issued, and
\* the last call before the return is a deleteRef of the branch's ref.
C3_ConflictStopsAndDeletes ==
    \A p \in DOMAIN eng :
        (eng[p].pc = "returned" /\ eng[p].err = "Conflict") =>
            LET k == eng[p].i + 1 IN
            /\ Cardinality(FinalShas(p)) = k - 1
            /\ \A c \in CallIdx(p) : calls[c].step <= k
            /\ \A c \in OkCalls(p, "createCommit", "cherryPickCommit") : calls[c].step < k
            /\ BranchRef(p) \in DOMAIN refs =>
                 Reach(store, refs[BranchRef(p)]) \cap FinalShas(p) = {}
            /\ LastCall(p).op = "deleteRef" /\ LastCall(p).ref = BranchRef(p)

C3_Witness ==
    \E p \in DOMAIN eng :
        /\ eng[p].pc = "returned" /\ eng[p].err = "Conflict" /\ eng[p].i = 1
        /\ Len(eng[p].commits) = MaxCommits
\* C4 as stated: whenever a replay fails at a step, the branch ref is gone
\* when CherryPickCommitsOnBranch returns.
C4_FailedReplayRefDeleted ==
    \A p \in DOMAIN eng :
        (eng[p].pc = "returned" /\ FailedAtStep(p)) => BranchRef(p) \notin DOMAIN refs

\* C4 as amended: whenever a replay fails at a step, a deleteRef of the
\* branch's ref is the last call before the return and its error is dropped:
\* the ref is gone if that deleteRef succeeded, and otherwise still points at
\* the commit the failed step left it on (the head before the step, the
\* step's sibling or its merge commit).
C4_FailedReplayDeleteAttempted ==
    \A p \in DOMAIN eng :
        (eng[p].pc = "returned" /\ FailedAtStep(p)) =>
            /\ eng[p].err /= NoErr
            /\ LastCall(p).op = "deleteRef" /\ LastCall(p).ref = BranchRef(p)
            /\ LastCall(p).res = "ok" <=> BranchRef(p) \notin DOMAIN refs
            /\ BranchRef(p) \in DOMAIN refs =>
                 refs[BranchRef(p)] \in
                     {eng[p].headCommit.SHA, eng[p].commitSHA, eng[p].mergeSHA}

C4_Witness ==
    \E p \in DOMAIN eng :
        /\ eng[p].pc = "returned" /\ FailedAtStep(p) /\ eng[p].i = 1
        /\ eng[p].err = "Unavailable"
        /\ BranchRef(p) \notin DOMAIN refs

\* C5 as stated: a replay of the empty list leaves the ref where it was,
\* issues no createCommit, merge, updateRef or deleteRef, and returns no error.
C5_EmptyListNoOpNoError ==
    \A p \in DOMAIN eng :
        (eng[p].pc = "returned" /\ Len(eng[p].commits) = 0) =>
            /\ eng[p].err = NoErr
            /\ BranchRef(p) \in DOMAIN refs /\ refs[BranchRef(p)] = eng[p].branch.SHA
            /\ \A k \in CallIdx(p) : calls[k].op \notin MutatingOps

\* C5 as amended: a replay of the empty list leaves the ref and the object
\* store as they were and issues no createCommit, merge, updateRef or
\* deleteRef; its one remote call is the getCommit of the branch head, and it
\* returns no error exactly when the branch object has a name and a head SHA
\* and that getCommit succeeds.
C5_EmptyListNoMutation ==
    \A p \in DOMAIN eng :
        (eng[p].pc = "returned" /\ Len(eng[p].commits) = 0) =>
            /\ BranchRef(p) \in DOMAIN refs /\ refs[BranchRef(p)] = eng[p].branch.SHA
            /\ store = BaseStore
            /\ \A k \in CallIdx(p) :
                 calls[k].op = "getCommit" /\ calls[k].sha = eng[p].branch.SHA
            /\ Cardinality(CallIdx(p)) <= 1
            /\ eng[p].err = NoErr <=>
                 /\ ~eng[p].branch.NameNil /\ ~eng[p].branch.SHANil
                 /\ \E k \in CallIdx(p) : calls[k].res = "ok"

C5_Witness ==
    \E p \in DOMAIN eng :
        /\ Succeeded(p) /\ Len(eng[p].commits) = 0
        /\ Cardinality(CallIdx(p)) = 1

\* C6: at every moment of a replay every existing ref points at a commit of
\* the object store, and every updateRef carries the SHA an earlier
\* successful createCommit of the same step answered.
C6_RefOnStoredCommit ==
    /\ \A n \in DOMAIN refs : refs[n] \in DOMAIN store
    /\ \A k \in 1..Len(calls) :
         calls[k].op = "updateRef" =>
             \E j \in 1..(k - 1) :
                 /\ calls[j].op = "createCommit" /\ calls[j].res = "ok"
                 /\ calls[j].p = calls[k].p /\ calls[j].step = calls[k].step
                 /\ calls[j].out = calls[k].sha

C6_Witness ==
    \E k \in 1..Len(calls) :
        /\ calls[k].op = "updateRef" /\ calls[k].site = "cherryPickCommit"
        /\ calls[k].step = 2 /\ calls[k].res = "ok"

\* C7: the commits are replayed in list order with the head threaded forward:
\* the calls of step i work on the i-th commit, no call of step i+1 precedes
\* the final updateRef of step i, and at the start of step i the head the
\* engine tracks (SHA and tree) is the commit step i-1 produced (the original
\* head for i = 1), which is the commit the branch ref points at.
C7_InOrderHeadThreaded ==
    \A p \in DOMAIN eng :
        LET e == eng[p] IN
        /\ \A k \in CallIdx(p) :
             LET c == calls[k] IN
             /\ c.step <= Len(e.commits)
             /\ \A j \in CallIdx(p) : j < k => calls[j].step <= c.step
             /\ c.op = "merge" => c.sha = e.commits[c.step].SHA /\ c.ref = e.branch.Name
             /\ (c.op = "createCommit" /\ c.site = "createSiblingCommit") =>
                    c.sha = e.commits[c.step].Parents[1]
             /\ (c.step >= 2 /\ c.op /= "deleteRef") =>
                    \E j \in OkCalls(p, "updateRef", "cherryPickCommit") :
                        j < k /\ calls[j].step = c.step - 1
        /\ e.pc = "createSibling" =>
             /\ BranchRef(p) \in DOMAIN refs
             /\ e.headCommit.SHA = refs[BranchRef(p)]
             /\ e.headCommit.Tree = store[refs[BranchRef(p)]].Tree
             /\ e.headCommit.SHA = IF e.i = 0 THEN e.branch.SHA ELSE FinalShaOfStep(p, e.i)

C7_Witness ==
    \E p \in DOMAIN eng :
        eng[p].pc = "createSibling" /\ eng[p].i = MaxCommits - 1
----------------------------------------------------------------------------
(* More claims on the replay *)

\* C12 as stated: a NotFound of any getCommit of a replay, the read of the
\* branch head before the first commit included, ends the replay with an
\* error and is followed by a deleteRef of the branch's ref.
C12_NotFoundThenDeleteRef ==
    \A p \in DOMAIN eng :
        eng[p].pc = "returned" =>
            \A k \in CallIdx(p) :
                (calls[k].op = "getCommit" /\ calls[k].res = "NotFound") =>
                    /\ eng[p].err = "NotFound"
                    /\ \E j \in CallIdx(p) :
                         j > k /\ calls[j].op = "deleteRef" /\ calls[j].ref = BranchRef(p)

\* the error's text names the branch (by its name or its ref)
NamesBranch(info, branchName) == info.ref \in {branchName, RefName(branchName)}

\* C14 as stated: the error returned for a remote call that failed while
\* commit c was replayed on branch b carries b's name and c's SHA.
C14_ErrorCarriesBranchAndSha ==
    \A p \in DOMAIN eng :
        (eng[p].pc = "returned" /\ FailedAtStep(p)) =>
            /\ NamesBranch(ReturnValue(eng[p]).errInfo, eng[p].branch.Name)
            /\ ReturnValue(eng[p]).errInfo.sha = Cherry(eng[p]).SHA

\* C17 as stated: on full success the engine returns the final head commit
\* SHA and tree, and that SHA is the commit the branch ref points at.
C17_ReturnsFinalHead ==
    \A p \in DOMAIN eng :
        Succeeded(p) =>
            LET rv == ReturnValue(eng[p]) IN
            /\ {"SHA", "Tree"} \subseteq DOMAIN rv
            /\ rv.SHA = refs[BranchRef(p)]
            /\ rv.Tree = store[refs[BranchRef(p)]].Tree

\* the calls of step s of a replay, in order (the deferred deleteRef apart)
StepCalls(p, s) ==
    SelectSeq(calls, LAMBDA c : c.p = p /\ c.step = s /\ c.op /= "deleteRef")

\* the head the branch had before step s
PreStepHead(p, s) == IF s = 1 THEN eng[p].branch.SHA ELSE FinalShaOfStep(p, s - 1)

StepOrder ==
    << <<"createCommit", "createSiblingCommit">>, <<"updateRef", "createSiblingCommit">>,
       <<"merge", "merge">>, <<"getCommit", "merge">>, <<"getCommit", "cherryPickCommit">>,
       <<"createCommit", "cherryPickCommit">>, <<"updateRef", "cherryPickCommit">> >>

\* C19: the calls of a step come in this order, each after the one before
\* succeeded: createCommit of the sibling (the pre-step head's tree on the
\* first parent of the commit to replay), updateRef to the sibling, merge
\* (base the branch, head the commit to replay; then the read of the merge
\* commit), getCommit of the pre-step head, createCommit of the final commit,
\* updateRef to the final commit; the merge runs with the branch on the sibling.
C19_StepCallOrder ==
    \A p \in DOMAIN eng :
        /\ \A s \in 1..Len(eng[p].commits) :
             LET sc == StepCalls(p, s)
                 cherry == eng[p].commits[s]
             IN  /\ Len(sc) <= Len(StepOrder)
                 /\ \A k \in 1..Len(sc) :
                      /\ <<sc[k].op, sc[k].site>> = StepOrder[k]
                      /\ k < Len(sc) => sc[k].res = "ok"
                 /\ (Len(sc) >= 1 /\ sc[1].res = "ok") =>
                      /\ store[sc[1].out].Tree = store[PreStepHead(p, s)].Tree
                      /\ store[sc[1].out].Parents = <<cherry.Parents[1]>>
                 /\ Len(sc) >= 2 =>
                      (sc[2].ref = BranchRef(p) /\ sc[2].sha = sc[1].out)
                 /\ Len(sc) >= 3 =>
                      (sc[3].ref = eng[p].branch.Name /\ sc[3].sha = cherry.SHA)
                 /\ (Len(sc) >= 3 /\ sc[3].res = "ok") =>
                      store[sc[3].out].Parents = <<sc[1].out, cherry.SHA>>
                 /\ Len(sc) >= 4 => sc[4].sha = sc[3].out
                 /\ Len(sc) >= 5 => sc[5].sha = PreStepHead(p, s)
                 /\ (Len(sc) >= 6 /\ sc[6].res = "ok") =>
                      /\ store[sc[6].out].Parents = <<PreStepHead(p, s)>>
                      /\ store[sc[6].out].Tree = store[sc[3].out].Tree
                      /\ store[sc[6].out].Message = cherry.Message
                 /\ Len(sc) >= 7 =>
                      (sc[7].ref = BranchRef(p) /\ sc[7].sha = sc[6].out)
        /\ eng[p].pc = "merge" =>
             /\ refs[BranchRef(p)] = eng[p].commitSHA
             /\ refs[BranchRef(p)] /= eng[p].headCommit.SHA

C19_Witness ==
    \E p \in DOMAIN eng :
        /\ Len(eng[p].commits) >= 2
        /\ Len(StepCalls(p, 2)) = Len(StepOrder)
        /\ StepCalls(p, 2)[Len(StepOrder)].res = "ok"

SiblingOn(p, s) ==
    \E k \in OkCalls(p, "updateRef", "createSiblingCommit") : calls[k].step = s
FinalOn(p, s) ==
    \E k \in OkCalls(p, "updateRef", "cherryPickCommit") : calls[k].step = s
DeleteIssued(p) ==
    \E k \in CallIdx(p) : calls[k].op = "deleteRef" /\ calls[k].ref = BranchRef(p)

\* C20: once a step has repointed the branch to its sibling, the ref is
\* eventually repointed to the step's final commit or a deleteRef of the
\* branch is issued; the replay does not return with neither.
C20_StepRunsToAnEnd ==
    \A s \in 1..MaxCommits :
        SiblingOn(1, s) ~> (FinalOn(1, s) \/ DeleteIssued(1))

C20_Witness ==
    /\ eng[1].pc = "returned" /\ SiblingOn(1, 2)
    /\ ~FinalOn(1, 2) /\ DeleteIssued(1)

----------------------------------------------------------------------------
(* GetBranchCommits *)

Min(a, b) == IF a <= b THEN a ELSE b

\* SHAs are numbered in the order the commits were made: a parent has a
\* smaller number than its children
NewestFirst(S) == [k \in 1..Cardinality(S) |-> SetToSeq(S)[Cardinality(S) + 1 - k]]
OldestFirst(S) == SetToSeq(S)

\* the remote's enumeration of a branch: every commit reachable from its
\* head, the newest first
ListCommitsAll(st, rf, branchName) == NewestFirst(Reach(st, rf[RefName(branchName)]))

\* one page of it and the number of the next page (0 after the last page);
\* page 0 is the first page
ListCommitsPage(st, rf, branchName, page) ==
    LET all == ListCommitsAll(st, rf, branchName)
        pg == IF page = 0 THEN 1 ELSE page
    IN  [items |-> SubSeq(all, (pg - 1) * PageSize + 1, Min(pg * PageSize, Len(all))),
         NextPage |-> IF pg * PageSize < Len(all) THEN pg + 1 ELSE 0]

\* (mutant) a page is put in front of the pages before it
AppendPage_front(repoCommits, items) == items \o repoCommits

\* commitList = append(commitList, currCommits...)
AppendPage(repoCommits, items) == repoCommits \o items

ListCommitsResults(rf, branchName) ==
    IF RefName(branchName) \in DOMAIN rf THEN {"ok", "Unavailable"} ELSE {"NotFound"}

\* the remote's comparison: the commits of head that base does not have, the
\* oldest first
CompareCommits(st, rf, base, head) ==
    OldestFirst(Reach(st, rf[RefName(head)]) \ Reach(st, rf[RefName(base)]))

CompareCommitsResults(st, rf, base, head) ==
    IF RefName(base) \notin DOMAIN rf \/ RefName(head) \notin DOMAIN rf THEN {"NotFound"}
    ELSE IF MergeBases(st, rf[RefName(base)], rf[RefName(head)]) = {} THEN {"NotFound"}
    ELSE {"ok", "Unavailable"}

MasterBranch == "master"

StartResolver(branchName) ==
    [pc |-> "listCommits", branchName |-> branchName, page |-> 0, repoCommits |-> <<>>,
     comparison |-> <<>>, pos |-> 0, commits |-> <<>>, err |-> NoErr,
     ret |-> <<>>, retNil |-> FALSE]

\* the nested loops as one sequence of pairs: pair k is (repoCommits[ri],
\* comparison[ci]) with the comparison running in the inner loop
PairRepo(r, k) == r.repoCommits[((k - 1) \div Len(r.comparison)) + 1]
PairDiff(r, k) == r.comparison[((k - 1) % Len(r.comparison)) + 1]

\* diffCommit.GetSHA() == repoCommit.GetSHA()
SameCommit(diffSha, repoSha) == diffSha = repoSha

\* the pairs after pos that match
MatchesAfter(r) ==
    {k \in (r.pos + 1)..(Len(r.repoCommits) * Len(r.comparison)) :
        SameCommit(PairDiff(r, k), PairRepo(r, k))}

\* (mutant) no commit is taken for a merge commit
IsMergeCommit_never(commit) == FALSE

\* len(commit.Parents) != 1
IsMergeCommit(commit) == Len(commit.Parents) /= 1

\* return nil, err
ResolveFailed(r, err) == [r EXCEPT !.pc = "returned", !.err = err, !.ret = <<>>,
                                   !.retNil = TRUE]

\* (mutant) the loops end after the first commit taken
ScanOn_firstOnly(r) ==
    IF MatchesAfter(r) = {} \/ r.commits /= <<>>
    THEN [r EXCEPT !.pc = "returned", !.err = NoErr, !.ret = r.commits, !.retNil = FALSE]
    ELSE [r EXCEPT !.pc = "getCommit",
                   !.pos = CHOOSE k \in MatchesAfter(r) : \A j \in MatchesAfter(r) : k <= j]

\* run the loops on to the next matching pair; return commits, nil after the
\* last pair
ScanOn(r) ==
    IF MatchesAfter(r) = {}
    THEN [r EXCEPT !.pc = "returned", !.err = NoErr, !.ret = r.commits, !.retNil = FALSE]
    ELSE [r EXCEPT !.pc = "getCommit",
                   !.pos = CHOOSE k \in MatchesAfter(r) : \A j \in MatchesAfter(r) : k <= j]

ResolverCall(op, ref, sha, res) == Call(op, "GetBranchCommits", 0, 0, ref, sha, 0, res)

\* getBranchCommits: one ListCommits call of the paging loop
GetBranchCommitsListPage ==
    /\ rsv.pc = "listCommits"
    /\ \E res \in ListCommitsResults(refs, rsv.branchName) :
         /\ calls' = Logged(ResolverCall("listCommits", rsv.branchName, rsv.page, res))
         /\ rsv' = IF res /= "ok" THEN ResolveFailed(rsv, res)
                   ELSE LET pg == ListCommitsPage(store, refs, rsv.branchName, rsv.page)
                            got == [rsv EXCEPT !.repoCommits = AppendPage(rsv.repoCommits, pg.items)]
                        IN  IF pg.NextPage = 0 THEN [got EXCEPT !.pc = "compare"]
                            ELSE [got EXCEPT !.page = pg.NextPage]
         /\ UNCHANGED <<store, refs, nextSha, eng, outside>>

\* GetBranchCommits: CompareCommits("master", branchName), then the loops up
\* to the first match
GetBranchCommitsCompare ==
    /\ rsv.pc = "compare"
    /\ \E res \in CompareCommitsResults(store, refs, MasterBranch, rsv.branchName) :
         /\ calls' = Logged(ResolverCall("compareCommits", rsv.branchName, 0, res))
         /\ rsv' = IF res /= "ok" THEN ResolveFailed(rsv, res)
                   ELSE ScanOn([rsv EXCEPT !.comparison =
                                   CompareCommits(store, refs, MasterBranch,
                                                  rsv.branchName)])
         /\ UNCHANGED <<store, refs, nextSha, eng, outside>>

\* GetBranchCommits: getCommit of a matching commit, the parent check, the
\* append, then the loops up to the next match
GetBranchCommitsGetCommit ==
    /\ rsv.pc = "getCommit"
    /\ LET sha == PairRepo(rsv, rsv.pos) IN
       \E res \in GetCommitResults(store, sha) :
         /\ calls' = Logged(ResolverCall("getCommit", "", sha, res))
         /\ rsv' = IF res /= "ok" THEN ResolveFailed(rsv, res)
                   ELSE IF IsMergeCommit(CommitAt(store, sha))
                        THEN ResolveFailed(rsv, "MergeUnsupported")
                        ELSE ScanOn([rsv EXCEPT !.commits =
                                        Append(rsv.commits, CommitAt(store, sha))])
         /\ UNCHANGED <<store, refs, nextSha, eng, outside>>

\* the parents a commit can have: up to two older commits, the older first
ParentChoices(sha) ==
    {SetToSeq(ps) : ps \in {q \in SUBSET (1..(sha - 1)) : Cardinality(q) <= 2}}

\* the commit graphs of n commits
RECURSIVE Graphs(_)
Graphs(n) ==
    IF n = 0 THEN {<<>>}
    ELSE {Append(g, [Message |-> "m" \o ToString(n), Tree |-> {n}, Parents |-> ps]) :
             g \in Graphs(n - 1), ps \in ParentChoices(n)}

InitResolve ==
    /\ store \in Graphs(NumCommits)
    /\ \E m, h \in 1..NumCommits :
         refs = (RefName(MasterBranch) :> m) @@ (RefName("src") :> h)
    /\ nextSha = NumCommits + 1
    /\ calls = <<>>
    /\ eng = <<>>
    /\ rsv = StartResolver("src")
    /\ tracing = TRUE
    /\ main = IdleMain
    /\ pulls = <<>>
    /\ parse = IdleParse

NextResolve ==
    \/ GetBranchCommitsListPage
    \/ GetBranchCommitsCompare
    \/ GetBranchCommitsGetCommit

SpecResolve == InitResolve /\ [][NextResolve]_vars

----------------------------------------------------------------------------
(* Claims on GetBranchCommits *)

\* the commits of the source branch that mainline does not have
Resolved ==
    Reach(store, refs[RefName("src")]) \ Reach(store, refs[RefName(MasterBranch)])

ReturnedShas == {rsv.ret[k].SHA : k \in 1..Len(rsv.ret)}

ResolverCallsOk == \A k \in 1..Len(calls) : calls[k].res = "ok"

ResolveSucceeded == rsv.pc = "returned" /\ rsv.err = NoErr

\* C8 as stated: the returned list is oldest first: of two returned commits
\* of which one is an ancestor of the other, the ancestor comes first.
C8_OldestFirst ==
    ResolveSucceeded =>
        \A a, b \in 1..Len(rsv.ret) :
            (a < b) => rsv.ret[b].SHA \notin Reach(store, rsv.ret[a].SHA)

\* C9: a successful GetBranchCommits returns the commits reachable from the
\* source head and not from mainline, each once; when there is none and no
\* remote call fails it succeeds with the empty (non-nil) list.
C9_ExactlyTheDifference ==
    /\ ResolveSucceeded =>
         /\ ReturnedShas = Resolved
         /\ Len(rsv.ret) = Cardinality(Resolved)
         /\ ~rsv.retNil
         /\ \A k \in 1..Len(rsv.ret) : rsv.ret[k] = CommitAt(store, rsv.ret[k].SHA)
    /\ (rsv.pc = "returned" /\ Resolved = {}) =>
         /\ rsv.err /= "MergeUnsupported"
         /\ ResolverCallsOk => (rsv.err = NoErr /\ rsv.ret = <<>> /\ ~rsv.retNil)

C9_Witness ==
    /\ ResolveSucceeded /\ Len(rsv.ret) = 2
    /\ Cardinality(Reach(store, refs[RefName("src")])) = NumCommits

HasMergeCommit == \E c \in Resolved : Len(store[c].Parents) /= 1

\* C10 as stated: with a commit of parent count other than 1 in the resolved
\* set GetBranchCommits fails with the merge-commits error and returns no
\* list; every commit of a returned list has one parent.
C10_MergeCommitError ==
    /\ (rsv.pc = "returned" /\ HasMergeCommit) =>
         (rsv.err = "MergeUnsupported" /\ rsv.retNil /\ rsv.ret = <<>>)
    /\ ResolveSucceeded => \A k \in 1..Len(rsv.ret) : Len(rsv.ret[k].Parents) = 1

\* C10 as amended: with a commit of parent count other than 1 in the resolved
\* set GetBranchCommits fails and returns no list, wherever that commit sits:
\* with the merge-commits error when every remote call before succeeded, and
\* with the error of the remote call that failed otherwise; every commit of a
\* returned list has one parent.
C10_MergeCommitFails ==
    /\ (rsv.pc = "returned" /\ HasMergeCommit) =>
         /\ rsv.err /= NoErr /\ rsv.retNil /\ rsv.ret = <<>>
         /\ ResolverCallsOk <=> rsv.err = "MergeUnsupported"
    /\ rsv.err = "MergeUnsupported" => HasMergeCommit
    /\ ResolveSucceeded => \A k \in 1..Len(rsv.ret) : Len(rsv.ret[k].Parents) = 1

C10_Witness ==
    /\ rsv.pc = "returned" /\ rsv.err = "MergeUnsupported"
    /\ Len(rsv.commits) >= 1 /\ rsv.retNil

\* the place of a commit in the remote's enumeration of the source branch
EnumPos(sha) ==
    LET all == ListCommitsAll(store, refs, "src")
    IN  CHOOSE k \in 1..Len(all) : all[k] = sha

\* C21: the list GetBranchCommits returns keeps the order of the listCommits
\* enumeration of the source branch, its pages taken in page order: of two
\* returned commits the one the enumeration yields first comes first.
C21_KeepsEnumerationOrder ==
    ResolveSucceeded =>
        /\ rsv.repoCommits = ListCommitsAll(store, refs, "src")
        /\ \A a, b \in 1..Len(rsv.ret) :
             a < b => EnumPos(rsv.ret[a].SHA) < EnumPos(rsv.ret[b].SHA)

C21_Witness ==
    /\ ResolveSucceeded /\ Len(rsv.ret) >= 2
    /\ EnumPos(rsv.ret[1].SHA) <= PageSize
    /\ EnumPos(rsv.ret[Len(rsv.ret)].SHA) > PageSize
    /\ [k \in 1..Len(rsv.ret) |-> rsv.ret[k].SHA]
           /= CompareCommits(store, refs, MasterBranch, "src")

----------------------------------------------------------------------------
(* parseBranches *)

\* strings are sequences of characters; the longest input tried
MaxInput == 4
Alphabet == {"a", "b", ",", " "}
Inputs == UNION {[1..n -> Alphabet] : n \in 0..MaxInput}

IndexOf(str, ch) ==
    IF \E k \in 1..Len(str) : str[k] = ch
    THEN CHOOSE k \in 1..Len(str) : str[k] = ch /\ \A m \in 1..(k - 1) : str[m] /= ch
    ELSE 0

\* strings.Split(input, sep): the pieces between the separators, empty pieces kept
RECURSIVE Split(_, _)
Split(str, sep) ==
    LET k == IndexOf(str, sep) IN
    IF k = 0 THEN <<str>>
    ELSE <<SubSeq(str, 1, k - 1)>> \o Split(SubSeq(str, k + 1, Len(str)), sep)

IsSpace(ch) == ch = " "

RECURSIVE TrimLeft(_)
TrimLeft(str) ==
    IF str /= <<>> /\ IsSpace(Head(str)) THEN TrimLeft(Tail(str)) ELSE str

RECURSIVE TrimRight(_)
TrimRight(str) ==
    IF str /= <<>> /\ IsSpace(str[Len(str)])
    THEN TrimRight(SubSeq(str, 1, Len(str) - 1))
    ELSE str

\* (mutant) only the leading white space is removed
TrimSpace_leading(str) == TrimLeft(str)

\* strings.TrimSpace
TrimSpace(str) == TrimRight(TrimLeft(str))

\* the loop over the pieces: an empty piece ends it with BadParameter and no list
RECURSIVE parseLoop(_, _, _)
parseLoop(branches, k, backportBranches) ==
    IF k > Len(branches) THEN [ret |-> backportBranches, err |-> NoErr]
    ELSE IF branches[k] = <<>> THEN [ret |-> <<>>, err |-> "BadParameter"]
    ELSE parseLoop(branches, k + 1, Append(backportBranches, TrimSpace(branches[k])))

parseBranches(branchesInput) == parseLoop(Split(branchesInput, ","), 1, <<>>)

ParseBranches ==
    /\ parse.pc = "idle"
    /\ \E input \in Inputs :
         LET r == parseBranches(input) IN
         parse' = [pc |-> "returned", input |-> input, ret |-> r.ret, err |-> r.err]
    /\ UNCHANGED <<store, refs, nextSha, calls, eng, rsv, tracing, main, pulls>>

InitParse ==
    /\ store = BaseStore
    /\ refs = BaseRefs
    /\ nextSha = HeadSha + 1
    /\ calls = <<>>
    /\ eng = <<>>
    /\ rsv = IdleResolver
    /\ tracing = TRUE
    /\ main = IdleMain
    /\ pulls = <<>>
    /\ parse = IdleParse

NextParse == ParseBranches

SpecParse == InitParse /\ [][NextParse]_vars

\* the comma-separated elements of a string: what stands between one comma
\* (or the start) and the next comma (or the end)
CommaAt(str) == {k \in 1..Len(str) : str[k] = ","}

Commas(str) == Cardinality(CommaAt(str))

Edge(str, j) ==
    IF j = 0 THEN 0
    ELSE IF j > Commas(str) THEN Len(str) + 1
    ELSE CHOOSE k \in CommaAt(str) : Cardinality({m \in CommaAt(str) : m <= k}) = j

Element(str, j) == SubSeq(str, Edge(str, j - 1) + 1, Edge(str, j) - 1)

\* el is str without its surrounding white space
Trimmed(str, el) ==
    /\ \E a \in 0..Len(str) : \E b \in a..Len(str) :
         /\ el = SubSeq(str, a + 1, b)
         /\ \A k \in (1..a) \cup ((b + 1)..Len(str)) : str[k] = " "
    /\ el /= <<>> => (el[1] /= " " /\ el[Len(el)] /= " ")

HasEmptyElement(str) ==
    \/ str = <<>>
    \/ str[1] = ","
    \/ str[Len(str)] = ","
    \/ \E k \in 1..(Len(str) - 1) : str[k] = "," /\ str[k + 1] = ","

\* C18: parseBranches returns an error exactly when some comma-separated
\* element of the input is empty (the empty input, a leading, trailing or
\* doubled comma); otherwise it returns one name per element, in input
\* order, each the element without its surrounding white space.
C18_ParseBranches ==
    parse.pc = "returned" =>
        /\ (parse.err /= NoErr) <=> HasEmptyElement(parse.input)
        /\ HasEmptyElement(parse.input) <=>
             \E k \in 1..(Commas(parse.input) + 1) : Element(parse.input, k) = <<>>
        /\ parse.err /= NoErr => parse.ret = <<>>
        /\ parse.err = NoErr =>
             /\ Len(parse.ret) = Commas(parse.input) + 1
             /\ \A k \in 1..Len(parse.ret) :
                  Trimmed(Element(parse.input, k), parse.ret[k])

C18_Witness ==
    /\ parse.pc = "returned" /\ parse.err = NoErr
    /\ parse.input = <<" ", "a", ",", "b">>
    /\ parse.ret = << <<"a">>, <<"b">> >>

----------------------------------------------------------------------------
(* main: the run over the target branches *)

\* the longest list of target branches tried
MaxTargets == 3

TargetNames == {"release", "v9"}

TargetLists == UNION {[1..n -> TargetNames] : n \in 0..MaxTargets}

\* a source branch whose newest commit is a merge commit
MergeStore == [BaseStore EXCEPT ![MaxCommits + 1].Parents = <<MaxCommits, 1>>]

MainRefs == (RefName("v9") :> HeadSha) @@ BaseRefs

GetBranchResults(rf, branchName) ==
    IF RefName(branchName) \in DOMAIN rf THEN {"ok", "Unavailable"} ELSE {"NotFound"}

CreateRefResults(rf, ref) ==
    IF ref \in DOMAIN rf THEN {"AlreadyExists", "Unavailable"} ELSE {"ok", "Unavailable"}

ListPullRequestsResults == {"ok", "Unavailable"}

CreatePullRequestResults == {"ok", "Unavailable"}

\* the closed pull requests the remote can list for the source branch
PullCounts == 0..2

NilBranch == BranchObject("", TRUE, 0, TRUE)

\* (mutant) the error is not looked at
Fatal_never(err) == FALSE

\* if err != nil { log.Fatal(err) }
Fatal(err) == err /= NoErr

Exit(m, err) == [m EXCEPT !.pc = "exited", !.err = err]

\* the head of the loop over the target branches
EnterTarget(m, t) ==
    IF t > Len(m.targets) THEN [m EXCEPT !.pc = "done", !.t = t]
    ELSE [m EXCEPT !.pc = "getBranch", !.t = t]

\* main after CreateBranchFrom returned (branch, err): fatal, or the call of
\* CherryPickCommitsOnBranch(newTargetBranch, commits)
AfterCreateBranchFrom(branch, err) ==
    IF Fatal(err)
    THEN /\ main' = Exit(main, err)
         /\ eng' = eng
    ELSE /\ main' = [main EXCEPT !.pc = "replay"]
         /\ eng' = (main.t :> StartEng(branch, main.commits)) @@ eng

MainCall(op, site, ref, sha, out, res) == Call(op, site, main.t, 0, ref, sha, out, res)

\* main after GetBranchCommits returned: fatal, or GetPullRequestMetadata
\* (one PullRequests.List call; exactly one pull request must come back)
MainGetPullRequestMetadata ==
    /\ main.pc = "resolve"
    /\ rsv.pc = "returned"
    /\ IF Fatal(rsv.err)
       THEN /\ main' = Exit(main, rsv.err)
            /\ UNCHANGED calls
       ELSE \E res \in ListPullRequestsResults : \E n \in PullCounts :
              LET err == IF res /= "ok" THEN res
                         ELSE IF n = 0 THEN "NoPullRequest"
                         ELSE IF n /= 1 THEN "ManyPullRequests"
                         ELSE NoErr
              IN  /\ res /= "ok" => n = 0
                  /\ calls' = Logged(Call("listPullRequests", "GetPullRequestMetadata",
                                          0, 0, rsv.branchName, 0, n, res))
                  /\ main' = IF Fatal(err) THEN Exit(main, err)
                             ELSE EnterTarget([main EXCEPT !.commits = rsv.ret], 1)
    /\ UNCHANGED <<store, refs, nextSha, eng, rsv, tracing, pulls, parse>>

\* CreateBranchFrom: GetBranch(branchFromName)
CreateBranchFromGetBranch ==
    /\ main.pc = "getBranch"
    /\ LET targetBranch == main.targets[main.t] IN
       \E res \in GetBranchResults(refs, targetBranch) :
         /\ calls' = Logged(MainCall("getBranch", "CreateBranchFrom", targetBranch, 0, 0, res))
         /\ IF res = "ok"
            THEN /\ main' = [main EXCEPT !.pc = "createRef",
                                         !.baseBranchSHA = refs[RefName(targetBranch)]]
                 /\ eng' = eng
            ELSE AfterCreateBranchFrom(NilBranch, res)
    /\ UNCHANGED <<store, refs, nextSha, rsv, tracing, pulls, parse>>

\* CreateBranchFrom: CreateRef(refs/heads/newBranchName at baseBranchSHA)
CreateBranchFromCreateRef ==
    /\ main.pc = "createRef"
    /\ LET newRefBranchName == RefName(NewBranchName(main.targets[main.t])) IN
       \E res \in CreateRefResults(refs, newRefBranchName) :
         /\ calls' = Logged(MainCall("createRef", "CreateBranchFrom", newRefBranchName,
                                     main.baseBranchSHA, 0, res))
         /\ IF res = "ok"
            THEN /\ refs' = (newRefBranchName :> main.baseBranchSHA) @@ refs
                 /\ main' = [main EXCEPT !.pc = "getNewBranch"]
                 /\ eng' = eng
            ELSE /\ refs' = refs
                 /\ AfterCreateBranchFrom(NilBranch, res)
    /\ UNCHANGED <<store, nextSha, rsv, tracing, pulls, parse>>

\* CreateBranchFrom: GetBranch(newBranchName), the branch it returns
CreateBranchFromGetNewBranch ==
    /\ main.pc = "getNewBranch"
    /\ LET newBranchName == NewBranchName(main.targets[main.t]) IN
       \E res \in GetBranchResults(refs, newBranchName) :
         /\ calls' = Logged(MainCall("getBranch", "CreateBranchFrom", newBranchName, 0, 0, res))
         /\ IF res = "ok"
            THEN AfterCreateBranchFrom(
                     BranchObject(newBranchName, FALSE, refs[RefName(newBranchName)], FALSE),
                     NoErr)
            ELSE AfterCreateBranchFrom(NilBranch, res)
    /\ UNCHANGED <<store, refs, nextSha, rsv, tracing, pulls, parse>>

\* what a finished target left: its ref, the commit it points at, its pull request
Completed(rf, pl, ref) ==
    [ref |-> ref, sha |-> IF ref \in DOMAIN rf THEN rf[ref] ELSE 0, pull |-> Len(pl)]

\* main after CherryPickCommitsOnBranch returned: fatal, or CreatePullRequest
\* (one PullRequests.Create call), then the next target branch
MainCreatePullRequest ==
    /\ main.pc = "replay"
    /\ main.t \in DOMAIN eng
    /\ eng[main.t].pc = "returned"
    /\ IF Fatal(eng[main.t].err)
       THEN /\ main' = Exit(main, eng[main.t].err)
            /\ UNCHANGED <<calls, pulls>>
       ELSE LET targetBranch == main.targets[main.t]
                newBranchName == NewBranchName(targetBranch)
            IN  \E res \in CreatePullRequestResults :
                  /\ calls' = Logged(MainCall("createPullRequest", "CreatePullRequest",
                                              newBranchName, 0, 0, res))
                  /\ pulls' = IF res = "ok"
                              THEN Append(pulls, [Base |-> targetBranch, Head |-> newBranchName])
                              ELSE pulls
                  /\ main' = IF Fatal(IF res = "ok" THEN NoErr ELSE res)
                             THEN Exit(main, res)
                             ELSE EnterTarget(
                                      [main EXCEPT !.completed =
                                          Append(main.completed,
                                                 Completed(refs, pulls', RefName(newBranchName)))],
                                      main.t + 1)
    /\ UNCHANGED <<store, refs, nextSha, eng, rsv, tracing, parse>>

\* a run: the source branch src (with or without a merge commit on it), the
\* target branches, and possibly a branch left over under the new name
InitMain ==
    /\ store \in {BaseStore, MergeStore}
    /\ \E old \in SUBSET {RefName(NewBranchName("release"))} :
         refs = [r \in old |-> 1] @@ MainRefs
    /\ nextSha = HeadSha + 1
    /\ calls = <<>>
    /\ eng = <<>>
    /\ rsv = StartResolver("src")
    /\ tracing = TRUE
    /\ \E ts \in TargetLists : main = [IdleMain EXCEPT !.pc = "resolve", !.targets = ts]
    /\ pulls = <<>>
    /\ parse = IdleParse

NextMain ==
    \/ GetBranchCommitsListPage
    \/ GetBranchCommitsCompare
    \/ GetBranchCommitsGetCommit
    \/ MainGetPullRequestMetadata
    \/ CreateBranchFromGetBranch
    \/ CreateBranchFromCreateRef
    \/ CreateBranchFromGetNewBranch
    \/ \E p \in DOMAIN eng : CherryPickCommitsOnBranch(p)
    \/ \E p \in DOMAIN eng : SiblingCreateCommit(p)
    \/ \E p \in DOMAIN eng : SiblingUpdateBranch(p)
    \/ \E p \in DOMAIN eng : MergeCall(p)
    \/ \E p \in DOMAIN eng : MergeGetCommit(p)
    \/ \E p \in DOMAIN eng : GetUpdatedCommit(p)
    \/ \E p \in DOMAIN eng : FinalCreateCommit(p)
    \/ \E p \in DOMAIN eng : FinalUpdateBranch(p)
    \/ \E p \in DOMAIN eng : DeferredDeleteBranch(p)
    \/ MainCreatePullRequest

SpecMain == InitMain /\ [][NextMain]_vars

\* the refs a run starts with
StartRefs == {[r \in old |-> 1] @@ MainRefs : old \in SUBSET {RefName(NewBranchName("release"))}}

RunMutatingOps == MutatingOps \cup {"createRef", "createPullRequest"}

\* C11: when the resolved commit set holds a merge commit, the run ends
\* before any mutating remote call: no createRef, createCommit, merge,
\* updateRef, deleteRef or pull-request creation for any target branch; the
\* refs are the ones the run started with.
C11_MergeCommitBeforeAnyMutation ==
    rsv.err = "MergeUnsupported" =>
        /\ \A k \in 1..Len(calls) : calls[k].op \notin RunMutatingOps
        /\ \A k \in 1..Len(calls) : calls[k].p = 0
        /\ eng = <<>> /\ pulls = <<>> /\ refs \in StartRefs
        /\ main.pc \in {"resolve", "exited"}
        /\ main.pc = "exited" => main.err = "MergeUnsupported"

C11_Witness ==
    /\ main.pc = "exited" /\ main.err = "MergeUnsupported"
    /\ Len(main.targets) >= 1
    /\ HasMergeCommit

\* target i of the run failed: in CreateBranchFrom, in the replay or in
\* CreatePullRequest
FailedTarget(i) ==
    \/ \E k \in 1..Len(calls) :
         /\ calls[k].p = i /\ calls[k].res /= "ok"
         /\ calls[k].site \in {"CreateBranchFrom", "CreatePullRequest"}
    \/ i \in DOMAIN eng /\ eng[i].pc = "returned" /\ eng[i].err /= NoErr

\* C13: after target i failed no remote call is made for the targets after
\* it, and the ref and the pull request of every target completed before are
\* as they were when that target completed.
C13_FailStopAcrossTargets ==
    /\ \A i \in 1..Len(main.targets) :
         FailedTarget(i) =>
             /\ \A k \in 1..Len(calls) : calls[k].p <= i
             /\ DOMAIN eng \subseteq 1..i
             /\ main.t = i
             /\ Len(main.completed) = i - 1
             /\ Len(pulls) = i - 1
    /\ \A j \in 1..Len(main.completed) :
         LET c == main.completed[j] IN
         /\ c.ref = RefName(NewBranchName(main.targets[j]))
         /\ c.ref \in DOMAIN refs /\ refs[c.ref] = c.sha
         /\ c.pull = j /\ j <= Len(pulls)
         /\ pulls[j] = [Base |-> main.targets[j], Head |-> NewBranchName(main.targets[j])]

C13_Witness ==
    /\ main.pc = "exited" /\ main.t = 2 /\ Len(main.targets) = 3
    /\ FailedTarget(2)
    /\ Len(main.completed) = 1

\* C16: a createRef answered AlreadyExists ends the run: it is the last
\* remote call, no replay is started for that target (no createCommit, merge,
\* updateRef or deleteRef against the name), and the ref that was there
\* still points at the commit it pointed at.
C16_NameCollisionStopsRun ==
    \A k \in 1..Len(calls) :
        (calls[k].op = "createRef" /\ calls[k].res = "AlreadyExists") =>
            LET ref == calls[k].ref
                made == {j \in 1..(k - 1) : /\ calls[j].op = "createRef"
                                            /\ calls[j].ref = ref /\ calls[j].res = "ok"}
            IN  /\ k = Len(calls)
                /\ main.pc = "exited" /\ main.err = "AlreadyExists"
                /\ calls[k].p = main.t /\ main.t \notin DOMAIN eng
                /\ ref \in DOMAIN refs
                /\ IF made = {} THEN refs[ref] = 1
                   ELSE \A j \in made : refs[ref] = main.completed[calls[j].p].sha

C16_Witness ==
    /\ main.pc = "exited" /\ main.err = "AlreadyExists"
    /\ calls /= <<>> /\ calls[Len(calls)].op = "createRef"
    /\ \A j \in 1..(Len(calls) - 1) : calls[j].op /= "createRef"
    /\ rsv.ret /= <<>>

----------------------------------------------------------------------------
(* Two replays at once, each on its own new branch *)

\* the longest list either replay is given
MaxConcCommits == 2

\* the lists over the first MaxConcCommits commits of the source branch
ConcLists ==
    {cs \in CommitLists : /\ Len(cs) <= MaxConcCommits
                          /\ \A k \in 1..Len(cs) : cs[k].SHA <= MaxConcCommits + 1}

ConcBranches == <<NewBranchName("release"), NewBranchName("v9")>>

InitConc ==
    /\ store = BaseStore
    /\ refs = [r \in {RefName(ConcBranches[p]) : p \in 1..2} |-> HeadSha] @@ MainRefs
    /\ nextSha = HeadSha + 1
    /\ calls = <<>>
    /\ eng \in {[p \in 1..2 |-> StartEng(BranchObject(ConcBranches[p], FALSE, HeadSha, FALSE),
                                        css[p])] : css \in [1..2 -> ConcLists]}
    /\ rsv = IdleResolver
    /\ tracing = FALSE
    /\ main = IdleMain
    /\ pulls = <<>>
    /\ parse = IdleParse

NextConc ==
    \/ \E p \in DOMAIN eng : CherryPickCommitsOnBranch(p)
    \/ \E p \in DOMAIN eng : SiblingCreateCommit(p)
    \/ \E p \in DOMAIN eng : SiblingUpdateBranch(p)
    \/ \E p \in DOMAIN eng : MergeCall(p)
    \/ \E p \in DOMAIN eng : MergeGetCommit(p)
    \/ \E p \in DOMAIN eng : GetUpdatedCommit(p)
    \/ \E p \in DOMAIN eng : FinalCreateCommit(p)
    \/ \E p \in DOMAIN eng : FinalUpdateBranch(p)
    \/ \E p \in DOMAIN eng : DeferredDeleteBranch(p)

SpecConc == InitConc /\ [][NextConc]_vars

\* the tree a replay running alone has on its branch after k steps
RECURSIVE SoloTree(_, _, _)
SoloTree(head, commits, k) ==
    IF k = 0 THEN BaseStore[head].Tree
    ELSE Merge3(BaseStore[commits[k].Parents[1]].Tree, SoloTree(head, commits, k - 1),
                commits[k].Tree)

\* the branch from sha down is what a replay alone builds in k steps: k
\* single-parent commits with the messages of the first k commits of the
\* list and the trees of the solo replay, on top of the head it started from
SoloChain(p, sha, k) ==
    /\ \A j \in 0..(k - 1) :
         LET f == Walk(store, sha, j) IN
         /\ f \in DOMAIN store /\ f \notin DOMAIN BaseStore
         /\ Len(store[f].Parents) = 1
         /\ store[f].Message = eng[p].commits[k - j].Message
         /\ store[f].Tree = SoloTree(eng[p].branch.SHA, eng[p].commits, k - j)
    /\ Walk(store, sha, k) = eng[p].branch.SHA

\* the state a replay alone leaves its branch in
SoloEnd(p) ==
    LET e == eng[p]
        b == BranchRef(p)
    IN  IF e.err = NoErr
        THEN b \in DOMAIN refs /\ SoloChain(p, refs[b], Len(e.commits))
        ELSE IF e.headCommit = NoCommit
        THEN b \in DOMAIN refs /\ refs[b] = e.branch.SHA
        ELSE \/ b \notin DOMAIN refs
             \/ /\ SoloChain(p, e.headCommit.SHA, e.i)
                /\ \/ refs[b] = e.headCommit.SHA
                   \/ /\ refs[b] = e.commitSHA
                      /\ store[refs[b]].Tree = SoloTree(e.branch.SHA, e.commits, e.i)
                      /\ store[refs[b]].Parents = <<Cherry(e).Parents[1]>>
                   \/ /\ refs[b] = e.mergeSHA
                      /\ store[refs[b]].Tree = SoloTree(e.branch.SHA, e.commits, e.i + 1)
                      /\ store[refs[b]].Parents = <<e.commitSHA, Cherry(e).SHA>>

RefAt(rf, ref) == IF ref \in DOMAIN rf THEN rf[ref] ELSE 0

\* a step of replay p leaves the other replays and their refs alone
OwnRefOnly ==
    \A p \in DOMAIN eng :
        eng'[p] /= eng[p] =>
            \A q \in DOMAIN eng \ {p} :
                /\ eng'[q] = eng[q]
                /\ RefAt(refs', BranchRef(q)) = RefAt(refs, BranchRef(q))

\* C15: two replays on two distinct branch names with their remote calls
\* interleaved in any order: each branch ends as when its replay runs alone
\* (the same chain of parents, messages and trees, or deleted on failure),
\* and no step of one replay updates or deletes the other's ref.
C15_ConcurrentReplaysIndependent ==
    /\ [](\A p \in DOMAIN eng : eng[p].pc = "returned" => SoloEnd(p))
    /\ [][OwnRefOnly]_vars

C15_Witness ==
    /\ \A p \in DOMAIN eng : Succeeded(p) /\ Len(eng[p].commits) = MaxConcCommits
    /\ eng[1].commits /= eng[2].commits
    /\ refs[BranchRef(1)] < refs[BranchRef(2)]
    /\ eng[1].commitSHA > eng[2].commitSHA

----------------------------------------------------------------------------
(* More claims on the run *)

\* no step changes the list a replay was given, nor the list main holds
ListsKept ==
    /\ \A p \in DOMAIN eng : p \in DOMAIN eng' /\ eng'[p].commits = eng[p].commits
    /\ main.pc /= "resolve" => main'.commits = main.commits

\* C22: CherryPickCommitsOnBranch leaves the list it is given and every
\* commit in it (SHA, message, tree, parents) as they are, on success and on
\* failure: every target branch of a run is replayed with the list
\* GetBranchCommits returned, in its order, and the commits of the list stay
\* the commits the remote has under their SHAs.
C22_CommitListNotModified ==
    /\ [](\A p \in DOMAIN eng :
            /\ eng[p].commits = rsv.ret
            /\ eng[p].commits = main.commits
            /\ \A k \in 1..Len(eng[p].commits) :
                 eng[p].commits[k] = CommitAt(store, eng[p].commits[k].SHA))
    /\ [][ListsKept]_vars

C22_Witness ==
    /\ DOMAIN eng = 1..2
    /\ Succeeded(1)
    /\ eng[2].pc = "returned" /\ eng[2].err /= NoErr /\ eng[2].i >= 1
    /\ Len(main.commits) >= 2

\* the branches a run starts from and the refs of the branches it makes
GivenBranches == {MasterBranch, "src"} \cup TargetNames
NewRefs == {RefName(NewBranchName(main.targets[t])) : t \in 1..Len(main.targets)}

\* C23: all through a run the mainline branch, the source branch and every
\* target branch stay on the commit they were on at its start; every
\* createRef, updateRef and deleteRef names the ref of a new
\* auto-backport/<target>/<source> branch of the run and every merge has
\* such a branch as its base, on success and on every failure path.
C23_OnlyNewBranchesTouched ==
    /\ \A b \in GivenBranches :
         RefName(b) \in DOMAIN refs /\ refs[RefName(b)] = MainRefs[RefName(b)]
    /\ DOMAIN refs \subseteq DOMAIN MainRefs \cup NewRefs
                               \cup {RefName(NewBranchName("release"))}
    /\ \A k \in 1..Len(calls) :
         /\ calls[k].op \in {"createRef", "updateRef", "deleteRef"} =>
                (calls[k].p \in 1..Len(main.targets) /\
                 calls[k].ref = RefName(NewBranchName(main.targets[calls[k].p])))
         /\ calls[k].op = "merge" =>
                (calls[k].p \in 1..Len(main.targets) /\
                 calls[k].ref = NewBranchName(main.targets[calls[k].p]))

C23_Witness ==
    /\ main.pc = "exited" /\ main.t = 2 /\ Len(main.completed) = 1
    /\ \E k \in 1..Len(calls) :
         calls[k].op = "deleteRef" /\ calls[k].res = "ok" /\ calls[k].p = 2
    /\ \E k \in 1..Len(calls) :
         calls[k].op = "merge" /\ calls[k].res = "ok" /\ calls[k].p = 2

\* the calls CreateBranchFrom made for target t
BranchFromCalls(t) ==
    {k \in 1..Len(calls) : calls[k].p = t /\ calls[k].site = "CreateBranchFrom"}

\* C24 as stated: CreateBranchFrom is all-or-nothing: when it returns an
\* error the call has created no ref, and when it returns a branch the new
\* ref exists and points at the commit that was the head of the branch it
\* was made from when that head was read.
C24_CreateBranchFromAllOrNothing ==
    \A t \in 1..Len(main.targets) :
        /\ (\E k \in BranchFromCalls(t) : calls[k].res /= "ok") =>
               ~\E k \in BranchFromCalls(t) :
                    calls[k].op = "createRef" /\ calls[k].res = "ok"
        /\ (t \in DOMAIN eng /\ eng[t].pc = "start") =>
               LET newRef == RefName(NewBranchName(main.targets[t])) IN
               /\ newRef \in DOMAIN refs
               /\ refs[newRef] = main.baseBranchSHA
               /\ eng[t].branch = BranchObject(NewBranchName(main.targets[t]), FALSE,
                                               main.baseBranchSHA, FALSE)

====
